---- MODULE Spec2Model ----
(***************************************************************************)
(* NutriScan (src/nutriscan_app.py): the barcode resolution pipeline       *)
(* load_nutrition_db -> scan_barcode -> fetch_barcode_data ->              *)
(* save_nutrition_db, and the preference evaluator check_nutrition.        *)
(*                                                                         *)
(* Python values are modelled as follows.  A dict is a function whose      *)
(* DOMAIN is its key set.  An optional dict (a value that may be None) is  *)
(* None or Some(d).  A raised exception is a distinguished outcome.        *)
(***************************************************************************)
EXTENDS Integers, Sequences, FiniteSets, TLC

\* ------------------------------------------------------------------ bounds
\* nutrient values and thresholds range over 0..MaxVal
MaxVal == 1
\* barcodes decoded from one image
MaxCodes == 2
\* images uploaded one after the other in a session
MaxScans == 2

\* ----------------------------------------------------------- Python values
None == [t |-> "None"]
Some(d) == [t |-> "dict", v |-> d]
EmptyDict == [k \in {} |-> 0]

\* truth value of an optional dict: None and {} are falsy
Truthy(x) == x.t = "dict" /\ DOMAIN x.v # {}

\* dict.get(k, default)
DictGet(d, k, default) == IF k \in DOMAIN d THEN d[k] ELSE default

\* ------------------------------------------------- Preference Evaluator
\* the six nutrient keys, in the order check_nutrition tests them
Nutrients == <<"calories", "protein", "fat", "carbs", "sugar", "fiber">>

NutrientSet == {Nutrients[i] : i \in 1..Len(Nutrients)}

\* the label each f-string starts with
Label(field) ==
  CASE field = "calories" -> "Calories"
    [] field = "protein" -> "Protein"
    [] field = "fat" -> "Fat"
    [] field = "carbs" -> "Carbs"
    [] field = "sugar" -> "Sugar"
    [] field = "fiber" -> "Fiber"

\* mutation of Compare: the bound itself counts as a violation
CompareNonStrict(op, a, b) == IF op = ">" THEN a >= b ELSE a <= b

\* the comparison of one line of check_nutrition
Compare(op, a, b) == IF op = ">" THEN a > b ELSE a < b

\* f"Label ({data[field]} op {threshold})", kept as its four parts
Message(field, value, op, threshold) == <<Label(field), value, op, threshold>>

\* One `if data.get(field, 0) op threshold: mismatches.append(f"...{data[field]}...")`
\* line.  The comparison reads the field with a default, the f-string indexes
\* the dict: a missing field whose default violates the threshold raises KeyError
\* and ends the function.
CheckLine(acc, data, field, op, threshold) ==
  IF acc.raised # ""
  THEN acc
  ELSE IF Compare(op, DictGet(data, field, 0), threshold)
       THEN IF field \in DOMAIN data
            THEN [acc EXCEPT !.mismatches =
                       Append(@, Message(field, data[field], op, threshold))]
            ELSE [acc EXCEPT !.raised = "KeyError"]
       ELSE acc

\* check_nutrition(data, ...): `data` is an optional dict.  The result is
\* (passed, mismatches), or raised = "KeyError" when the call ends in a fault.
check_nutrition(data, max_calories, min_protein, max_fat, max_carbs, max_sugar, min_fiber) ==
  IF ~Truthy(data)
  THEN [passed |-> FALSE, mismatches |-> <<>>, raised |-> ""]
  ELSE LET m0 == [mismatches |-> <<>>, raised |-> ""]
           m1 == CheckLine(m0, data.v, "calories", ">", max_calories)
           m2 == CheckLine(m1, data.v, "protein", "<", min_protein)
           m3 == CheckLine(m2, data.v, "fat", ">", max_fat)
           m4 == CheckLine(m3, data.v, "carbs", ">", max_carbs)
           m5 == CheckLine(m4, data.v, "sugar", ">", max_sugar)
           m6 == CheckLine(m5, data.v, "fiber", "<", min_fiber)
       IN  IF m6.raised # ""
           THEN [passed |-> FALSE, mismatches |-> <<>>, raised |-> m6.raised]
           ELSE [passed |-> Len(m6.mismatches) = 0,
                 mismatches |-> m6.mismatches, raised |-> ""]

\* ------------------------------------------------------ Remote Lookup Client
\* keys of the record fetch_barcode_data builds, in the order of its dict literal
Fields == <<"name", "calories", "fat", "carbs", "protein", "sugar", "fiber">>

FieldSet == {Fields[i] : i \in 1..Len(Fields)}

\* the Open Food Facts key each nutrient is read from
NutrimentKey(field) ==
  CASE field = "calories" -> "energy-kcal_100g"
    [] field = "fat" -> "fat_100g"
    [] field = "carbs" -> "carbohydrates_100g"
    [] field = "protein" -> "proteins_100g"
    [] field = "sugar" -> "sugars_100g"
    [] field = "fiber" -> "fiber_100g"

\* fetch_barcode_data(barcode) given what requests.get produced: `response` is
\* [raises, status_code, status, product], product an optional dict with keys
\* "product_name" and "nutriments".  Every failure becomes None.
fetch_barcode_data(barcode, response) ==
  IF response.raises
  THEN None
  ELSE IF response.status_code # 200
  THEN None
  ELSE IF response.status # 1 \/ ~Truthy(response.product)
  THEN None
  ELSE LET product == response.product.v
           nutriments == DictGet(product, "nutriments", EmptyDict)
       IN  Some([k \in FieldSet |->
                  IF k = "name"
                  THEN DictGet(product, "product_name", "Unknown Product")
                  ELSE DictGet(nutriments, NutrimentKey(k), 0)])

\* ------------------------------------------------------------- Cache Store
\* the cache file nutrition_db.json: absent, unreadable as JSON, or holding
\* {"barcodes": {...}}
FileAbsent == [st |-> "absent", barcodes |-> EmptyDict]
FileCorrupt == [st |-> "corrupt", barcodes |-> EmptyDict]
FileValid(barcodes) == [st |-> "valid", barcodes |-> barcodes]

\* how a write of the file (open(path, "w") then json.dump) ends: it succeeds,
\* open fails (file untouched), or the dump fails after open truncated the file
WriteOutcomes == {"ok", "open_failed", "write_failed"}

AfterWrite(file, barcodes, outcome) ==
  CASE outcome = "ok" -> FileValid(barcodes)
    [] outcome = "open_failed" -> file
    [] outcome = "write_failed" -> FileCorrupt

\* load_nutrition_db(): the creation of a missing file is outside the try, so a
\* failed creation raises; a failed read returns the empty store.
load_nutrition_db(file, outcome) ==
  LET created == IF file.st = "absent" THEN AfterWrite(file, EmptyDict, outcome) ELSE file
  IN  IF file.st = "absent" /\ outcome # "ok"
      THEN [raised |-> TRUE, db |-> [barcodes |-> EmptyDict], file |-> created]
      ELSE IF created.st = "valid"
      THEN [raised |-> FALSE, db |-> [barcodes |-> created.barcodes], file |-> created]
      ELSE [raised |-> FALSE, db |-> [barcodes |-> EmptyDict], file |-> created]

\* mutation of save_nutrition_db: nothing is written
save_dropped(db, file, outcome) == file

\* mutation of save_nutrition_db: the new entries are added to what the file holds
save_merging(db, file, outcome) ==
  AfterWrite(file,
             [k \in DOMAIN file.barcodes \cup DOMAIN db.barcodes |->
                IF k \in DOMAIN db.barcodes THEN db.barcodes[k] ELSE file.barcodes[k]],
             outcome)

\* save_nutrition_db(db): the whole store replaces the file; a failure is logged
\* and not raised
save_nutrition_db(db, file, outcome) == AfterWrite(file, db.barcodes, outcome)

\* db["barcodes"].get(barcode_data)
CacheGet(db, barcode_data) ==
  IF barcode_data \in DOMAIN db.barcodes THEN Some(db.barcodes[barcode_data]) ELSE None

\* mutation of CachePut: an empty record is stored
CachePutEmpty(db, barcode_data, nutritional_info) ==
  [barcodes |-> [k \in DOMAIN db.barcodes \cup {barcode_data} |->
                   IF k = barcode_data THEN EmptyDict ELSE db.barcodes[k]]]

\* db["barcodes"][barcode_data] = nutritional_info
CachePut(db, barcode_data, nutritional_info) ==
  [barcodes |-> [k \in DOMAIN db.barcodes \cup {barcode_data} |->
                   IF k = barcode_data THEN nutritional_info ELSE db.barcodes[k]]]

\* -------------------------------------------------------- Nutrition Resolver
\* mutation of IsUnsupported: no symbology is excluded
IsUnsupportedNone(barcode) == barcode.type = "NONE"

\* barcode.type == "PDF417"
IsUnsupported(barcode) == barcode.type = "PDF417"

\* what scan_barcode returned: an optional dict, or Raised when an exception left it
Raised == [t |-> "raise"]
NotCalled == [t |-> "not_called"]

\* One pass of the `for barcode in barcodes` body (lines 90-105) on the store
\* `db`, `response` being what the remote request yields if it is made.
\* next: "continue" (next barcode), "return" (line 98), "save" (lines 101-103),
\* "except" (the KeyError of nutritional_info['name'] in the log line 97,
\* caught at line 107).  ops: the store and remote operations performed.
ScanStep(db, barcode, response) ==
  IF IsUnsupported(barcode)
  THEN [next |-> "continue", db |-> db, info |-> None, ops |-> <<"skip">>]
  ELSE LET barcode_data == barcode.data
           nutritional_info == CacheGet(db, barcode_data)
       IN  IF Truthy(nutritional_info)
           THEN IF "name" \in DOMAIN nutritional_info.v
                THEN [next |-> "return", db |-> db, info |-> nutritional_info,
                      ops |-> <<"get">>]
                ELSE [next |-> "except", db |-> db, info |-> None, ops |-> <<"get">>]
           ELSE LET fetched == fetch_barcode_data(barcode_data, response)
                IN  IF Truthy(fetched)
                    THEN [next |-> "save", db |-> CachePut(db, barcode_data, fetched.v),
                          info |-> fetched, ops |-> <<"get", "fetch", "put">>]
                    ELSE [next |-> "continue", db |-> db, info |-> None,
                          ops |-> <<"get", "fetch">>]

\* mutation of Display: an image that cannot be read is reported as no barcode
DisplayCollapsed(res) ==
  CASE res.t = "raise" -> "Processing failed. Check nutriscan.log."
    [] res.t = "dict" /\ DOMAIN res.v # {} -> "Found"
    [] OTHER -> "Barcode not recognized. Check nutriscan.log for details."

\* the first message main shows for an uploaded file (lines 194-197, 203-204,
\* 221-224)
Display(res) ==
  CASE res.t = "not_called" -> "Failed to read image. Try another file."
    [] res.t = "raise" -> "Processing failed. Check nutriscan.log."
    [] res.t = "None" -> "Barcode not recognized. Check nutriscan.log for details."
    [] res.t = "dict" -> IF DOMAIN res.v # {}
                         THEN "Found"
                         ELSE "Barcode not recognized. Check nutriscan.log for details."

\* ------------------------------------------------------------------ state
Procs == {1, 2}

VARIABLES
  file,       \* the cache file nutrition_db.json
  pc,         \* per process: where it is in main / scan_barcode
  img,        \* per process: the uploaded image
  db,         \* per process: the store scan_barcode loaded (local variable db)
  idx,        \* per process: position of the for loop in the decoded barcodes
  result,     \* per process: what scan_barcode returned
  ui,         \* per process: the message main showed
  scans,      \* per process: images uploaded so far
  log,        \* per process: <<op, i>> store/remote operations of this scan, i the
              \* position of the barcode they were made for
  wrote,      \* per process: how the save of this scan ended ("none": no save)
  start,      \* per process: the cache file when this scan began
  after,      \* per process: the processes whose save had succeeded when this
              \* scan loaded the file
  lastSaver,  \* the process whose save wrote the file last (0: none yet)
  seeded,     \* the keys the cache file held before the first scan
  fetched,    \* barcode -> the record the remote client returned for it last
  seen,       \* <<class of image, result, message>> of the finished scans of
              \* images that did not decode or held no barcode
  evalPc,     \* "idle" before the call of check_nutrition, "done" after it
  evalData,   \* the `data` argument
  evalThr,    \* the six thresholds, by nutrient key
  evalOut     \* what check_nutrition returned

scanVars == <<file, pc, img, db, idx, result, ui, scans, log, wrote, start, after, lastSaver,
              seeded, fetched, seen>>

evalVars == <<evalPc, evalData, evalThr, evalOut>>

vars == <<file, pc, img, db, idx, result, ui, scans, log, wrote, start, after, lastSaver,
          seeded, fetched, seen, evalPc, evalData, evalThr, evalOut>>

\* ----------------------------------------------------------------- inputs
Values == 0..MaxVal

Payloads == {"111", "222"}

Symbologies == {"EAN13", "PDF417"}

DecodedBarcodes == [data : Payloads, type : Symbologies]

\* an uploaded file: cv2.imdecode yields None ("unreadable"), preprocessing or
\* pyzbar raises ("fault"), or the image decodes to a sequence of barcodes
Images ==
  {[kind |-> "unreadable", barcodes |-> <<>>], [kind |-> "fault", barcodes |-> <<>>]}
  \cup {[kind |-> "ok", barcodes |-> b] :
          b \in UNION {[1..n -> DecodedBarcodes] : n \in 0..MaxCodes}}

\* images that decode to exactly one barcode
OneBarcodeImages == {image \in Images : image.kind = "ok" /\ Len(image.barcodes) = 1}

ImageClass(image) ==
  IF image.kind # "ok" THEN "decode_failure"
  ELSE IF Len(image.barcodes) = 0 THEN "zero_barcodes" ELSE "barcodes"

\* records a cache file may be seeded with: complete, and without a name
SeedRecords ==
  {[k \in S |-> IF k = "name" THEN "Seeded" ELSE 1] :
     S \in {FieldSet, FieldSet \ {"name"}}}

InitFiles ==
  {FileAbsent, FileCorrupt}
  \cup {FileValid(b) : b \in UNION {[S -> SeedRecords] : S \in SUBSET Payloads}}

Products ==
  {[product_name |-> "Corn Flakes",
    nutriments |-> [k \in {NutrimentKey(f) : f \in NutrientSet} |-> 1]],
   [k \in {"nutriments"} |-> [j \in {"energy-kcal_100g"} |-> 1]],
   [k \in {"product_name"} |-> "Water"]}

\* what the request to Open Food Facts can produce
Responses ==
  {[raises |-> TRUE, status_code |-> 0, status |-> 0, product |-> None],
   [raises |-> FALSE, status_code |-> 404, status |-> 0, product |-> None],
   [raises |-> FALSE, status_code |-> 200, status |-> 0, product |-> None],
   [raises |-> FALSE, status_code |-> 200, status |-> 1, product |-> None],
   [raises |-> FALSE, status_code |-> 200, status |-> 1, product |-> Some(EmptyDict)]}
  \cup {[raises |-> FALSE, status_code |-> 200, status |-> 1, product |-> Some(pr)] :
          pr \in Products}

\* records check_nutrition is called with: any subset of the nutrient keys,
\* with a name (non-empty even when no nutrient is present)
EvalRecords ==
  UNION {{[k \in S \cup {"name"} |-> IF k = "name" THEN "p" ELSE f[k]] :
            f \in [S -> Values]} : S \in SUBSET NutrientSet}

\* each threshold at the lowest or at the highest value
Thresholds == [NutrientSet -> {0, MaxVal}]

\* -------------------------------------------------------------------- Init
EvalIdle ==
  /\ evalPc = "idle"
  /\ evalData = None
  /\ evalThr = [f \in NutrientSet |-> 0]
  /\ evalOut = [passed |-> FALSE, mismatches |-> <<>>, raised |-> ""]

ScanInit ==
  /\ file \in InitFiles
  /\ pc = [p \in Procs |-> "idle"]
  /\ img = [p \in Procs |-> [kind |-> "ok", barcodes |-> <<>>]]
  /\ db = [p \in Procs |-> [barcodes |-> EmptyDict]]
  /\ idx = [p \in Procs |-> 0]
  /\ result = [p \in Procs |-> NotCalled]
  /\ ui = [p \in Procs |-> ""]
  /\ scans = [p \in Procs |-> 0]
  /\ log = [p \in Procs |-> <<>>]
  /\ wrote = [p \in Procs |-> "none"]
  /\ start = [p \in Procs |-> file]
  /\ after = [p \in Procs |-> {}]
  /\ lastSaver = 0
  /\ seeded = DOMAIN file.barcodes
  /\ fetched = EmptyDict
  /\ seen = {}

Init == ScanInit /\ EvalIdle

\* ----------------------------------------------------------------- actions
\* scan_barcode or main ends for process p with `res`
Finish(p, image, res) ==
  /\ pc' = [pc EXCEPT ![p] = "done"]
  /\ result' = [result EXCEPT ![p] = res]
  /\ ui' = [ui EXCEPT ![p] = Display(res)]
  /\ seen' = IF ImageClass(image) = "barcodes" THEN seen
             ELSE seen \cup {<<ImageClass(image), image.kind, res, Display(res)>>}

\* main, lines 184-200: a file is uploaded and decoded with cv2.imdecode; None
\* ends the run with an error message, otherwise scan_barcode is called
Upload(p, may, images) ==
  /\ pc[p] \in {"idle", "done"}
  /\ may
  /\ \E image \in images :
       /\ img' = [img EXCEPT ![p] = image]
       /\ IF image.kind = "unreadable"
          THEN Finish(p, image, NotCalled)
          ELSE /\ pc' = [pc EXCEPT ![p] = "load"]
               /\ result' = [result EXCEPT ![p] = NotCalled]
               /\ ui' = [ui EXCEPT ![p] = ""]
               /\ seen' = seen
  /\ scans' = [scans EXCEPT ![p] = @ + 1]
  /\ db' = [db EXCEPT ![p] = [barcodes |-> EmptyDict]]
  /\ idx' = [idx EXCEPT ![p] = 0]
  /\ log' = [log EXCEPT ![p] = <<>>]
  /\ wrote' = [wrote EXCEPT ![p] = "none"]
  /\ start' = [start EXCEPT ![p] = file]
  /\ UNCHANGED <<file, after, lastSaver, seeded, fetched, evalVars>>

\* scan_barcode, lines 74-76: db = load_nutrition_db()
Load(p) ==
  /\ pc[p] = "load"
  /\ \E outcome \in WriteOutcomes :
       LET r == load_nutrition_db(file, outcome)
       IN  /\ file' = r.file
           /\ after' = [after EXCEPT ![p] = {q \in Procs \ {p} : wrote[q] = "ok"}]
           /\ IF r.raised
              THEN /\ Finish(p, img[p], Raised)
                   /\ db' = db
              ELSE /\ pc' = [pc EXCEPT ![p] = "decode"]
                   /\ db' = [db EXCEPT ![p] = r.db]
                   /\ UNCHANGED <<result, ui, seen>>
  /\ UNCHANGED <<img, idx, scans, log, wrote, start, lastSaver, seeded, fetched, evalVars>>

\* scan_barcode, lines 78-88: preprocessing and pyzbar.decode
Decode(p) ==
  /\ pc[p] = "decode"
  /\ IF img[p].kind = "fault" \/ Len(img[p].barcodes) = 0
     THEN /\ Finish(p, img[p], None)
          /\ idx' = idx
     ELSE /\ pc' = [pc EXCEPT ![p] = "loop"]
          /\ idx' = [idx EXCEPT ![p] = 1]
          /\ UNCHANGED <<result, ui, seen>>
  /\ UNCHANGED <<file, img, db, scans, log, wrote, start, after, lastSaver, seeded,
               fetched, evalVars>>

\* scan_barcode, lines 89-106: one barcode of the for loop, up to the return,
\* to the call of save_nutrition_db, or to the end of the loop
Iterate(p) ==
  /\ pc[p] = "loop"
  /\ \E s \in {ScanStep(db[p], img[p].barcodes[idx[p]], response) : response \in Responses} :
       LET i == idx[p]
           barcode == img[p].barcodes[i]
       IN  /\ log' = [log EXCEPT ![p] = @ \o [j \in 1..Len(s.ops) |-> <<s.ops[j], i>>]]
           /\ db' = [db EXCEPT ![p] = s.db]
           /\ fetched' = IF s.next = "save"
                         THEN [k \in DOMAIN fetched \cup {barcode.data} |->
                                 IF k = barcode.data THEN s.info.v ELSE fetched[k]]
                         ELSE fetched
           /\ CASE s.next = "return" ->
                     /\ Finish(p, img[p], s.info)
                     /\ idx' = idx
                [] s.next = "except" ->
                     /\ Finish(p, img[p], None)
                     /\ idx' = idx
                [] s.next = "save" ->
                     /\ pc' = [pc EXCEPT ![p] = "save"]
                     /\ idx' = idx
                     /\ UNCHANGED <<result, ui, seen>>
                [] s.next = "continue" /\ i < Len(img[p].barcodes) ->
                     /\ idx' = [idx EXCEPT ![p] = i + 1]
                     /\ UNCHANGED <<pc, result, ui, seen>>
                [] s.next = "continue" /\ i = Len(img[p].barcodes) ->
                     /\ Finish(p, img[p], None)
                     /\ idx' = idx
  /\ UNCHANGED <<file, img, scans, wrote, start, after, lastSaver, seeded, evalVars>>

\* scan_barcode, lines 102-103: save_nutrition_db(db); return nutritional_info.
\* The write of the file is a step of its own because another process can read
\* or write the file between this process's load and its save.
Save(p) ==
  /\ pc[p] = "save"
  /\ \E outcome \in WriteOutcomes :
       /\ file' = save_nutrition_db(db[p], file, outcome)
       /\ wrote' = [wrote EXCEPT ![p] = outcome]
       /\ lastSaver' = IF outcome = "open_failed" THEN lastSaver ELSE p
  /\ Finish(p, img[p], Some(db[p].barcodes[img[p].barcodes[idx[p]].data]))
  /\ UNCHANGED <<img, db, idx, scans, log, start, after, seeded, fetched, evalVars>>

\* one call of check_nutrition
Evaluate ==
  /\ evalPc = "idle"
  /\ \E data \in {None, Some(EmptyDict)} \cup {Some(r) : r \in EvalRecords},
        thr \in Thresholds :
       /\ evalData' = data
       /\ evalThr' = thr
       /\ evalOut' = check_nutrition(data, thr["calories"], thr["protein"], thr["fat"],
                                     thr["carbs"], thr["sugar"], thr["fiber"])
  /\ evalPc' = "done"
  /\ UNCHANGED scanVars

\* ------------------------------------------------------------ the claims
\* the operation `op` was made for the barcode at position i of p's image
Has(p, op, i) == \E j \in 1..Len(log[p]) : log[p][j] = <<op, i>>

Count(p, op, i) == Cardinality({j \in 1..Len(log[p]) : log[p][j] = <<op, i>>})

Positions(p) == 1..Len(img[p].barcodes)

DataAt(p, i) == img[p].barcodes[i].data

IsPDF417(p, i) == img[p].barcodes[i].type = "PDF417"

\* the store p's scan loaded: its in-memory store without the key it inserted
Loaded(p) ==
  [k \in DOMAIN db[p].barcodes \ {DataAt(p, i) : i \in {j \in Positions(p) : Has(p, "put", j)}}
     |-> db[p].barcodes[k]]

\* the mapping a cache file stands for: a missing or unreadable file loads as
\* the empty store
StoreOf(f) == IF f.st = "valid" THEN f.barcodes ELSE EmptyDict

\* C6: for a record with all six nutrients, the mismatches are exactly the
\* fields that violate their threshold, in the order calories, protein, fat,
\* carbs, sugar, fiber; a maximum is violated only by a strictly greater value, a
\* minimum only by a strictly smaller one; passed iff there is no mismatch.
C6_Evaluate ==
  (evalPc = "done" /\ Truthy(evalData) /\ NutrientSet \subseteq DOMAIN evalData.v) =>
    LET IsMax(f) == f \in {"calories", "fat", "carbs", "sugar"}
        Violated(f) == IF IsMax(f) THEN ~(evalData.v[f] <= evalThr[f])
                       ELSE ~(evalData.v[f] >= evalThr[f])
        expected == SelectSeq(Nutrients, Violated)
        m == evalOut.mismatches
    IN  /\ evalOut.raised = ""
        /\ Len(m) = Len(expected)
        /\ \A i \in 1..Len(m) :
             m[i] = <<Label(expected[i]), evalData.v[expected[i]],
                      IF IsMax(expected[i]) THEN ">" ELSE "<", evalThr[expected[i]]>>
        /\ evalOut.passed = (Len(m) = 0)

\* a complete record with calories at its maximum, protein at its minimum and
\* two other fields in violation
C6_Witness ==
  /\ evalPc = "done" /\ Truthy(evalData) /\ NutrientSet \subseteq DOMAIN evalData.v
  /\ evalData.v["calories"] = evalThr["calories"] /\ evalThr["calories"] > 0
  /\ evalData.v["protein"] = evalThr["protein"] /\ evalThr["protein"] > 0
  /\ Len(evalOut.mismatches) = 2
  /\ evalOut.mismatches[1][1] = "Fat" /\ evalOut.mismatches[2][1] = "Fiber"

\* C10: for a non-empty record with a nutrient missing, check_nutrition treats
\* the missing field as 0 and returns (passed, mismatches); it never ends in a
\* fault, also when the 0 violates the threshold.
C10_MissingFieldIsZero ==
  (evalPc = "done" /\ Truthy(evalData) /\ ~(NutrientSet \subseteq DOMAIN evalData.v)) =>
    LET filled == [f \in NutrientSet |-> DictGet(evalData.v, f, 0)]
    IN  /\ evalOut.raised = ""
        /\ evalOut = check_nutrition(Some(filled), evalThr["calories"], evalThr["protein"],
                                     evalThr["fat"], evalThr["carbs"], evalThr["sugar"],
                                     evalThr["fiber"])

\* C1: a non-PDF417 barcode whose payload is a key of the cache when the scan
\* starts resolves to exactly the stored record, with no remote call for it.
C1_CacheHit ==
  \A p \in Procs :
    pc[p] = "done" =>
      \A i \in Positions(p) :
        (Has(p, "get", i) /\ DataAt(p, i) \in DOMAIN StoreOf(start[p])) =>
          /\ result[p] = Some(StoreOf(start[p])[DataAt(p, i)])
          /\ Count(p, "fetch", i) = 0

\* C3: for a decoded barcode of symbology PDF417, scan_barcode makes no cache
\* lookup, no remote call and no cache insert for it.
C3_PDF417Skipped ==
  \A p \in Procs :
    \A i \in Positions(p) :
      IsPDF417(p, i) =>
        \A op \in {"get", "fetch", "put"} : Count(p, op, i) = 0

\* a finished scan that skipped a PDF417 barcode and then fetched and stored the
\* same payload read from a supported barcode
C3_Witness ==
  /\ pc[1] = "done" /\ Len(img[1].barcodes) = 2
  /\ IsPDF417(1, 1) /\ ~IsPDF417(1, 2) /\ DataAt(1, 1) = DataAt(1, 2)
  /\ Has(1, "skip", 1) /\ Has(1, "put", 2)
  /\ result[1].t = "dict"

\* the barcode at position i resolved: found in the loaded store, or fetched
Resolved(p, i) ==
  /\ ~IsPDF417(p, i)
  /\ \/ DataAt(p, i) \in DOMAIN Loaded(p)
     \/ Has(p, "put", i)

\* C4: first match wins.  The barcodes are processed in order; the result is the
\* record of the first non-PDF417 barcode that resolves; nothing is looked up,
\* fetched or stored for a later barcode; absent is returned only when every
\* barcode was skipped or failed to resolve.
C4_FirstMatchWins ==
  \A p \in Procs :
    (pc[p] = "done" /\ result[p].t \in {"None", "dict"}) =>
      /\ \A j, k \in 1..Len(log[p]) : j < k => log[p][j][2] <= log[p][k][2]
      /\ result[p].t = "dict" =>
           \E i \in Positions(p) :
             /\ Resolved(p, i)
             /\ result[p].v = db[p].barcodes[DataAt(p, i)]
             /\ \A j \in Positions(p) : j < i => ~Resolved(p, j)
             /\ \A j \in Positions(p) : j > i => Count(p, "get", j) + Count(p, "fetch", j)
                                                  + Count(p, "put", j) + Count(p, "skip", j) = 0
      /\ result[p].t = "None" => \A i \in Positions(p) : ~Resolved(p, i)

\* C7: load_nutrition_db and scan_barcode never end by raising, whatever the
\* state of the cache file and the remote outcome.
C7_NeverRaises == \A p \in Procs : result[p] # Raised

\* C5: every key of the store was seeded or inserted after the remote client
\* returned a record for it; no key maps to an empty record; a scan in which no
\* remote lookup returned a record leaves the store unchanged.
C5_StoreInvariant ==
  /\ \A k \in DOMAIN StoreOf(file) : k \in seeded \/ k \in DOMAIN fetched
  /\ \A k \in DOMAIN StoreOf(file) : DOMAIN StoreOf(file)[k] # {}
  /\ \A p \in Procs :
       /\ \A k \in DOMAIN db[p].barcodes :
            /\ k \in seeded \/ k \in DOMAIN fetched
            /\ DOMAIN db[p].barcodes[k] # {}
       /\ (pc[p] = "done" /\ \A i \in Positions(p) : ~Has(p, "put", i)) =>
            StoreOf(file) = StoreOf(start[p])

\* a finished scan of a seeded store whose remote lookup returned absent
C5_Witness ==
  /\ pc[1] = "done" /\ result[1] = None
  /\ \E i \in Positions(1) : Has(1, "fetch", i) /\ ~Has(1, "put", i)
  /\ DOMAIN StoreOf(file) # {}
  /\ StoreOf(file) = StoreOf(start[1])

\* the barcode at position i was looked up and was not in the store p loaded
Missed(p, i) == Has(p, "get", i) /\ DataAt(p, i) \notin DOMAIN Loaded(p)

\* C2, what holds whether or not the write succeeds: each barcode that misses the
\* loaded store is fetched exactly once, a barcode found in the loaded store is
\* not fetched, and a load returns the mapping the file holds
C2_Lookups ==
  \A p \in Procs :
    /\ pc[p] = "done" =>
         \A i \in Positions(p) :
           /\ Missed(p, i) => Count(p, "fetch", i) = 1
           /\ Has(p, "fetch", i) => DataAt(p, i) \notin DOMAIN Loaded(p)
    /\ pc[p] = "decode" => db[p].barcodes = StoreOf(file)

\* C2 as stated: a barcode absent from the cache is fetched exactly once; when
\* the fetch returns a record, the cache file holds it under that barcode
\* afterwards, and every later load returns that value for the key, so that a
\* later resolve of the barcode makes no remote call.
C2_Original ==
  /\ C2_Lookups
  /\ \A p \in Procs :
       /\ pc[p] = "done" =>
            \A i \in Positions(p) :
              Has(p, "put", i) =>
                /\ DataAt(p, i) \in DOMAIN StoreOf(file)
                /\ StoreOf(file)[DataAt(p, i)] = result[p].v
       /\ pc[p] = "decode" =>
            \A k \in DOMAIN fetched :
              k \in DOMAIN db[p].barcodes /\ db[p].barcodes[k] = fetched[k]

\* the state part of C2 as amended: the fetched record is returned, and it is in
\* the file exactly when the write of save_nutrition_db succeeded
C2_Stored ==
  \A p \in Procs :
    pc[p] = "done" =>
      \A i \in Positions(p) :
        Has(p, "put", i) =>
          /\ result[p] = Some(fetched[DataAt(p, i)])
          /\ wrote[p] \in WriteOutcomes
          /\ wrote[p] = "ok" =>
               /\ file = FileValid(db[p].barcodes)
               /\ file.barcodes[DataAt(p, i)] = fetched[DataAt(p, i)]
          /\ wrote[p] # "ok" => DataAt(p, i) \notin DOMAIN StoreOf(file)

\* a step that leaves the file readable keeps every key it held, with its value
C2_Kept ==
  (file.st = "valid" /\ file'.st = "valid") =>
    \A k \in DOMAIN file.barcodes :
      k \in DOMAIN file'.barcodes /\ file'.barcodes[k] = file.barcodes[k]

\* C2 (amended): in a single process, a barcode that misses the loaded store is
\* fetched exactly once; when the fetch returns a record it is returned and
\* save_nutrition_db is called; if that write succeeds the file holds the record
\* under that barcode and keeps it across later loads and saves for as long as
\* no write of the file fails, so that a later scan finds it without a remote
\* call; if the write fails the record is returned but is not in the file.
C2_Amended == [](C2_Lookups /\ C2_Stored) /\ [][C2_Kept]_vars

\* the second scan of a session finds, without a remote call, the record the
\* first scan fetched and saved
C2_Witness ==
  /\ pc[1] = "done" /\ scans[1] = 2
  /\ "111" \in DOMAIN fetched /\ "111" \notin seeded
  /\ log[1] = <<<<"get", 1>>>> /\ DataAt(1, 1) = "111"
  /\ result[1] = Some(fetched["111"])

\* C8 as stated: a decode failure (an unreadable image, or a fault raised while
\* preprocessing or decoding) never yields the same outcome as a valid image in
\* which no barcode was found (stated for the scans in which load_nutrition_db
\* did not raise, so that it does not rest on the outcome C7 is about).
C8_Original ==
  \A e1, e2 \in seen :
    (e1[1] = "decode_failure" /\ e2[1] = "zero_barcodes"
       /\ e1[3] # Raised /\ e2[3] # Raised) =>
      <<e1[3], e1[4]>> # <<e2[3], e2[4]>>

\* C8 (amended): an image cv2.imdecode cannot read is reported by main as
\* "Failed to read image", scan_barcode not being called, which no image without
\* barcodes yields; a fault raised while preprocessing or decoding in
\* scan_barcode returns absent and is reported as "Barcode not recognized", the
\* result and message of an image without barcodes (both end in "Processing
\* failed" when load_nutrition_db raises).
C8_Amended ==
  LET Absent == <<None, "Barcode not recognized. Check nutriscan.log for details.">>
      Failed == <<Raised, "Processing failed. Check nutriscan.log.">>
      Unreadable == <<NotCalled, "Failed to read image. Try another file.">>
  IN  \A e \in seen :
        /\ e[2] = "unreadable" =>
             /\ <<e[3], e[4]>> = Unreadable
             /\ \A e2 \in seen :
                  e2[1] = "zero_barcodes" => (e2[3] # e[3] /\ e2[4] # e[4])
        /\ e[2] = "fault" => <<e[3], e[4]>> \in {Absent, Failed}
        /\ e[1] = "zero_barcodes" => <<e[3], e[4]>> \in {Absent, Failed}

\* a session that saw both an unreadable image and an image without barcodes
C8_Witness ==
  /\ <<"decode_failure", "unreadable", NotCalled,
       "Failed to read image. Try another file.">> \in seen
  /\ <<"zero_barcodes", "ok", None,
       "Barcode not recognized. Check nutriscan.log for details.">> \in seen

\* p fetched a record, inserted it and wrote the file
Stored(p) ==
  /\ pc[p] = "done"
  /\ Has(p, "put", idx[p])
  /\ wrote[p] = "ok"

\* C9: two processes each resolve a different barcode absent from the cache,
\* both remote lookups and both writes succeed.  The file is then the store of
\* the process that saved last; it holds the other process's record when the
\* last saver loaded after the other's save (one resolve after the other) and
\* lacks it otherwise, both processes having reported "Found".
C9_LastSaveWins ==
  \A p, q \in Procs :
    (p # q /\ Stored(p) /\ Stored(q) /\ DataAt(p, idx[p]) # DataAt(q, idx[q])
       /\ lastSaver = q) =>
      /\ file = FileValid(db[q].barcodes)
      /\ file.barcodes[DataAt(q, idx[q])] = result[q].v
      /\ ui[p] = "Found" /\ ui[q] = "Found"
      /\ IF p \in after[q]
         THEN /\ DataAt(p, idx[p]) \in DOMAIN file.barcodes
              /\ file.barcodes[DataAt(p, idx[p])] = result[p].v
         ELSE DataAt(p, idx[p]) \notin DOMAIN file.barcodes

\* the lost update: both loaded before either saved, process 2 saved last, and
\* the record process 1 fetched and reported is not in the file
C9_LostUpdate ==
  /\ Stored(1) /\ Stored(2) /\ DataAt(1, idx[1]) # DataAt(2, idx[2])
  /\ lastSaver = 2 /\ 1 \notin after[2] /\ 2 \notin after[1]
  /\ DataAt(1, idx[1]) \notin DOMAIN StoreOf(file)
  /\ DataAt(2, idx[2]) \in DOMAIN StoreOf(file)
  /\ ui[1] = "Found" /\ ui[2] = "Found"

\* ----------------------------------------------------------- specifications
\* one process, images uploaded one after the other
Next == \E p \in {1} : Upload(p, scans[p] < MaxScans, Images) \/ Load(p) \/ Decode(p) \/ Iterate(p) \/ Save(p)

Spec == Init /\ [][Next]_vars

\* two processes sharing the cache file, each uploading one image of one barcode
ConcNext == \E p \in Procs : Upload(p, scans[p] = 0, OneBarcodeImages) \/ Load(p) \/ Decode(p) \/ Iterate(p) \/ Save(p)

ConcSpec == Init /\ [][ConcNext]_vars

\* check_nutrition on every record and thresholds within the bounds
EvalNext == Evaluate

EvalInit == Init /\ file = FileAbsent

EvalSpec == EvalInit /\ [][EvalNext]_vars

====
